---- MODULE Spec2Model ----
(***************************************************************************)
(* A model of the route optimisation service of aryv-platform              *)
(* (src/ai-services/services/route_optimization.py) and of the result      *)
(* cache it shares with the other services (utils/redis_client.py).        *)
(*                                                                         *)
(* Geometry.  Waypoints lie on one meridian; `pos' is the position of a    *)
(* waypoint along it in whole kilometres north of the south pole, so the   *)
(* geodesic distance of two waypoints is the absolute difference of their  *)
(* positions.  A negative position is a latitude below -90 degrees, which  *)
(* geopy (2.x) refuses with a ValueError.  With avg_speed_kmh = 30 one     *)
(* kilometre is driven in 120 seconds.                                     *)
(*                                                                         *)
(* Units of the result.  total_distance_km is in km (round(x, 2) leaves a  *)
(* whole number of km alone), total_time_minutes in tenths of a minute     *)
(* (round(x, 1)), efficiency_score in thousandths (round(x, 3)).           *)
(***************************************************************************)
EXTENDS Integers, Sequences, FiniteSets, TLC

VARIABLES
    waypoints,          \* optimize_route: the raw waypoint dicts of the call
    constraints,        \* optimize_route: the constraints of the call
    pc,                 \* where the call is: idle, loop, evaluate, done
    optimized_route,    \* _optimize_multi_passenger_route / the sequenced order
    remaining_pickups,
    remaining_dropoffs,
    passenger_in_car,
    current_location,
    branch,             \* which path produced optimized_route
    result,             \* what optimize_route handed to its caller
    caught,             \* the exception optimize_route swallowed at line 126
    redis,              \* the shared cache: key -> stored value
    history,            \* the completed calls of this service instance
    request,            \* find_matches: origin, destination, departure_time, preferences
    rows,               \* the rows the query of _get_available_rides returns
    available_rides,    \* find_matches: the rows _get_available_rides returned
    matches,            \* find_matches: the RideMatch objects kept so far
    scored,             \* find_matches: how many rides the for loop has scored
    match_pc,           \* where find_matches is: idle, score, rank, done
    match_result        \* what find_matches handed to its caller

matchvars == <<request, rows, available_rides, matches, scored, match_pc, match_result>>

vars == <<waypoints, constraints, pc, optimized_route, remaining_pickups,
          remaining_dropoffs, passenger_in_car, current_location, branch,
          result, caught, redis, history, matchvars>>

loopvars == <<optimized_route, remaining_pickups, remaining_dropoffs,
              passenger_in_car, current_location, branch>>

----------------------------------------------------------------------------
(* Bounds of the model *)

MaxLen == 4             \* waypoints per request
MaxCalls == 2           \* calls per service instance when the cache is studied
CacheMaxLen == 2        \* waypoints per request when the cache is studied
MaxRides == 2           \* kinds of ride in the table of a search
Copies == 11            \* rides of one kind, when a kind stands many times
EdgeMaxLen == 3         \* waypoints per request when malformed requests are studied
SharedMaxLen == 2       \* waypoints per request when both services use the cache
LiveMaxLen == 4         \* waypoints per request when termination is studied
AnonMaxLen == 4         \* waypoints per request when some carry no passenger

PassengerIds == {"p1", "p2"}        \* non-empty (truthy) passenger ids
\* the passenger_id of a waypoint that carries no passenger: None or '', which
\* `if w.passenger_id' (line 89) does not count
NoPassenger == ""
Positions == {0, 1}                 \* km along the meridian
OutOfRange == 0 - 1                 \* a latitude geopy refuses
\* the constraints dict, as the set of values it binds 'max_passengers' to:
\* {} when the key is absent (constraints None or {}), {n} when it is n
ConstraintValues == {{}, {1}, {2}}

(* Program constants *)

self_max_passengers == 4
avg_speed_kmh == 30
pickup_time_seconds == 120
fallback_total_distance_km == 10
fallback_total_time_minutes == 300      \* 30.0 minutes, in tenths
fallback_efficiency_score == 500        \* 0.5, in thousandths
except_efficiency_score == 500          \* 0.5, in thousandths

----------------------------------------------------------------------------
(* Helpers *)

SeqsUpTo(S, n) == UNION {[1..k -> S] : k \in 0..n}

Min(a, b) == IF a < b THEN a ELSE b
Max(a, b) == IF a > b THEN a ELSE b

\* Python's round(): n/d rounded to the nearest integer, a tie to the even one
RoundHalfEven(n, d) ==
    LET q == n \div d
        r == n % d
    IN  IF 2 * r < d THEN q
        ELSE IF 2 * r > d THEN q + 1
        ELSE IF q % 2 = 0 THEN q ELSE q + 1

\* list.remove(x): drops the first element equal to x
Remove(s, x) ==
    LET i == CHOOSE k \in DOMAIN s : s[k] = x /\ \A j \in 1..(k - 1) : s[j] # x
    IN  SubSeq(s, 1, i - 1) \o SubSeq(s, i + 1, Len(s))

\* the first of the indexes I (those whose element matches), 0 when there is none
FirstIndex(I) ==
    IF I # {} THEN CHOOSE k \in I : \A j \in I : k <= j ELSE 0

\* the last of the indexes I (those whose element matches), 0 when there is none
LastIndex(I) ==
    IF I # {} THEN CHOOSE k \in I : \A j \in I : k >= j ELSE 0

----------------------------------------------------------------------------
(* Waypoints *)

WaypointTypes == {"pickup", "dropoff"}

\* the waypoint dicts a client sends: type, coordinates, passenger_id
RawWaypoints == [type : WaypointTypes, pos : Positions, passenger_id : PassengerIds]

\* the same with what the service does not validate: a type that is neither
\* pickup nor dropoff, a latitude out of range
EdgeWaypoints ==
    [type : WaypointTypes \cup {"stop"}, pos : Positions \cup {OutOfRange},
     passenger_id : PassengerIds]

\* geopy.distance.geodesic(a, b).kilometers on the meridian
geodesic(a, b) == IF a.pos > b.pos THEN a.pos - b.pos ELSE b.pos - a.pos

\* geodesic(a, b) raises ValueError: a latitude is out of range
geodesic_raises(a, b) == a.pos < 0 \/ b.pos < 0

parse_waypoints(wps) ==
    [i \in DOMAIN wps |->
        [id |-> i, type |-> wps[i].type, pos |-> wps[i].pos,
         passenger_id |-> wps[i].passenger_id,
         estimated_time |-> pickup_time_seconds]]

\* the Waypoint that stands for Python's None
NoWaypoint == [id |-> 0, type |-> "none", pos |-> 0, passenger_id |-> "none",
               estimated_time |-> 0]

----------------------------------------------------------------------------
(* _optimize_multi_passenger_route: capacity-constrained nearest neighbour *)

\* constraints.get('max_passengers', self.max_passengers)
constraints_get(c) == IF c = {} THEN self_max_passengers ELSE CHOOSE n \in c : TRUE

\* mutant: every remaining dropoff is available, aboard or not
available_dropoffs_any(s) == s.remaining_dropoffs

available_dropoffs(s) ==
    SelectSeq(s.remaining_dropoffs, LAMBDA dp : dp.passenger_id \in s.passenger_in_car)

\* mutant: pickups stay candidates until the limit is exceeded
candidates_past_limit(s, c) ==
    IF Cardinality(s.passenger_in_car) > constraints_get(c)
    THEN available_dropoffs(s)
    ELSE s.remaining_pickups \o available_dropoffs(s)

candidates(s, c) ==
    IF Cardinality(s.passenger_in_car) >= constraints_get(c)
    THEN available_dropoffs(s)
    ELSE s.remaining_pickups \o available_dropoffs(s)

\* mutant: once the instance has served a call, a tie goes to the last candidate
next_waypoint_by_call(s, c) ==
    LET cands == candidates(s, c)
        d(k) == geodesic(s.current_location, cands[k])
    IN  IF cands = <<>> THEN NoWaypoint
        ELSE cands[CHOOSE k \in DOMAIN cands :
                      /\ \A j \in DOMAIN cands : d(k) <= d(j)
                      /\ IF history = <<>>
                         THEN \A j \in 1..(k - 1) : d(j) > d(k)
                         ELSE \A j \in (k + 1)..Len(cands) : d(j) > d(k)]

\* the for loop over the candidates: `distance < min_distance' keeps the first
\* candidate at the minimum distance; NoWaypoint when there is no candidate
next_waypoint(s, c) ==
    LET cands == candidates(s, c)
        d(k) == geodesic(s.current_location, cands[k])
    IN  IF cands = <<>> THEN NoWaypoint
        ELSE cands[CHOOSE k \in DOMAIN cands :
                      /\ \A j \in DOMAIN cands : d(k) <= d(j)
                      /\ \A j \in 1..(k - 1) : d(j) > d(k)]

\* the for loop over the candidates raises: geodesic refuses the current
\* location or a candidate
loop_raises(s, c) ==
    \E k \in DOMAIN candidates(s, c) :
        geodesic_raises(s.current_location, candidates(s, c)[k])

\* the handler at line 253: return pickups + dropoffs
loop_except(s, pickups, dropoffs) ==
    [s EXCEPT !.optimized_route = pickups \o dropoffs, !.branch = "except"]

\* mutant: the first pickup is visited but stays among the remaining pickups
loop_entry_keeps_first(pickups, dropoffs) ==
    [optimized_route |-> IF pickups # <<>> THEN <<pickups[1]>> ELSE <<>>,
     remaining_pickups |-> pickups,
     remaining_dropoffs |-> dropoffs,
     passenger_in_car |-> IF pickups # <<>> THEN {pickups[1].passenger_id} ELSE {},
     current_location |-> IF pickups # <<>> THEN pickups[1] ELSE
                          IF dropoffs # <<>> THEN dropoffs[1] ELSE NoWaypoint,
     branch |-> "greedy"]

\* the state of the locals before the while loop
loop_entry(pickups, dropoffs) ==
    IF pickups # <<>>
    THEN [optimized_route |-> <<pickups[1]>>,
          remaining_pickups |-> Tail(pickups),
          remaining_dropoffs |-> dropoffs,
          passenger_in_car |-> {pickups[1].passenger_id},
          current_location |-> pickups[1],
          branch |-> "greedy"]
    ELSE IF dropoffs # <<>>
    THEN [optimized_route |-> <<>>,
          remaining_pickups |-> <<>>,
          remaining_dropoffs |-> dropoffs,
          passenger_in_car |-> {},
          current_location |-> dropoffs[1],
          branch |-> "greedy"]
    ELSE \* dropoffs[0] raises IndexError: the handler returns pickups + dropoffs
         [optimized_route |-> <<>>,
          remaining_pickups |-> <<>>,
          remaining_dropoffs |-> <<>>,
          passenger_in_car |-> {},
          current_location |-> NoWaypoint,
          branch |-> "except"]

\* mutant: a visited dropoff stays among the remaining dropoffs
loop_visit_keeps_dropoff(s, nw) ==
    [optimized_route |-> Append(s.optimized_route, nw),
     remaining_pickups |->
        IF nw.type = "pickup" THEN Remove(s.remaining_pickups, nw)
        ELSE s.remaining_pickups,
     remaining_dropoffs |-> s.remaining_dropoffs,
     passenger_in_car |->
        IF nw.type = "pickup" THEN s.passenger_in_car \cup {nw.passenger_id}
        ELSE s.passenger_in_car \ {nw.passenger_id},
     current_location |-> nw,
     branch |-> s.branch]

\* mutant: a pickup is visited without its passenger getting aboard
loop_visit_boards_nobody(s, nw) ==
    [optimized_route |-> Append(s.optimized_route, nw),
     remaining_pickups |->
        IF nw.type = "pickup" THEN Remove(s.remaining_pickups, nw)
        ELSE s.remaining_pickups,
     remaining_dropoffs |->
        IF nw.type = "pickup" THEN s.remaining_dropoffs
        ELSE Remove(s.remaining_dropoffs, nw),
     passenger_in_car |->
        IF nw.type = "pickup" THEN s.passenger_in_car
        ELSE s.passenger_in_car \ {nw.passenger_id},
     current_location |-> nw,
     branch |-> s.branch]

\* one iteration of the while loop that found a next waypoint
loop_visit(s, nw) ==
    [optimized_route |-> Append(s.optimized_route, nw),
     remaining_pickups |->
        IF nw.type = "pickup" THEN Remove(s.remaining_pickups, nw)
        ELSE s.remaining_pickups,
     remaining_dropoffs |->
        IF nw.type = "pickup" THEN s.remaining_dropoffs
        ELSE Remove(s.remaining_dropoffs, nw),
     passenger_in_car |->
        IF nw.type = "pickup" THEN s.passenger_in_car \cup {nw.passenger_id}
        ELSE s.passenger_in_car \ {nw.passenger_id},
     current_location |-> nw,
     branch |-> s.branch]

\* the iteration that found none: the remaining waypoints are appended, break
loop_fallback(s) ==
    [s EXCEPT !.optimized_route = s.optimized_route \o s.remaining_pickups
                                                   \o s.remaining_dropoffs,
              !.branch = "fallback"]

\* the while condition
loop_continues(s) == s.remaining_pickups # <<>> \/ s.remaining_dropoffs # <<>>

----------------------------------------------------------------------------
(* _optimize_with_genetic_algorithm, up to the sequenced order *)

pickups_of(objs) == SelectSeq(objs, LAMBDA wp : wp.type = "pickup")
dropoffs_of(objs) == SelectSeq(objs, LAMBDA wp : wp.type = "dropoff")

\* the locals after the single-pair shortcut, or on entry to the while loop
sequence_entry(objs) ==
    LET pickups == pickups_of(objs)
        dropoffs == dropoffs_of(objs)
    IN  IF Len(pickups) = 1 /\ Len(dropoffs) = 1
        THEN [optimized_route |-> pickups \o dropoffs,
              remaining_pickups |-> <<>>,
              remaining_dropoffs |-> <<>>,
              passenger_in_car |-> {},
              current_location |-> NoWaypoint,
              branch |-> "single"]
        ELSE loop_entry(pickups, dropoffs)

----------------------------------------------------------------------------
(* Route metrics *)

RECURSIVE calculate_total_distance(_)
calculate_total_distance(wps) ==
    IF Len(wps) < 2 THEN 0
    ELSE geodesic(wps[1], wps[2]) + calculate_total_distance(Tail(wps))

\* _calculate_total_distance(wps) raises: one of its geodesic calls does
total_distance_raises(wps) ==
    Len(wps) >= 2 /\ \E i \in DOMAIN wps : wps[i].pos < 0

RECURSIVE stop_time(_)
stop_time(wps) ==
    IF wps = <<>> THEN 0 ELSE wps[1].estimated_time + stop_time(Tail(wps))

\* mutant: the time spent at the last stop is counted as well
calculate_total_time_all_stops(wps) ==
    IF Len(wps) < 2 THEN 0
    ELSE calculate_total_distance(wps) * (3600 \div avg_speed_kmh) + stop_time(wps)

\* seconds; (km / avg_speed_kmh) * 3600 is 3600 \div avg_speed_kmh seconds per km
calculate_total_time(wps) ==
    IF Len(wps) < 2 THEN 0
    ELSE calculate_total_distance(wps) * (3600 \div avg_speed_kmh)
         + stop_time(SubSeq(wps, 1, Len(wps) - 1))

\* the try block of _calculate_efficiency_score raises: a ValueError of
\* geodesic, or the ZeroDivisionError of sequential_distance / 0
efficiency_score_raises(optimized, original) ==
    \/ total_distance_raises(original)
    \/ total_distance_raises(optimized)
    \/ /\ calculate_total_distance(original) # 0
       /\ calculate_total_distance(optimized) = 0

\* mutant: the division is made without looking at sequential_distance first
calculate_efficiency_score_dividing(optimized, original) ==
    IF efficiency_score_raises(optimized, original)
          \/ calculate_total_distance(optimized) = 0
    THEN except_efficiency_score
    ELSE Max(0, Min(1000, RoundHalfEven(1000 * calculate_total_distance(original),
                                        calculate_total_distance(optimized))))

\* in thousandths, as round(efficiency_score, 3) reports it
calculate_efficiency_score(optimized, original) ==
    LET sequential_distance == calculate_total_distance(original)
        optimized_distance == calculate_total_distance(optimized)
    IN  IF efficiency_score_raises(optimized, original)
        THEN except_efficiency_score                \* except Exception: return 0.5
        ELSE IF sequential_distance = 0 THEN 1000
        ELSE Max(0, Min(1000, RoundHalfEven(1000 * sequential_distance,
                                            optimized_distance)))

\* mutant: the time spent at the stops on the way is not counted
RECURSIVE calculate_waypoint_eta_driving(_, _)
calculate_waypoint_eta_driving(wps, waypoint_index) ==
    IF waypoint_index < 0 \/ waypoint_index >= Len(wps) THEN 0
    ELSE IF waypoint_index = 0 THEN 0
    ELSE calculate_waypoint_eta_driving(wps, waypoint_index - 1)
         + geodesic(wps[waypoint_index], wps[waypoint_index + 1])
              * (3600 \div avg_speed_kmh)

\* index is 0-based, as in the source; -1 is `not found'
RECURSIVE calculate_waypoint_eta(_, _)
calculate_waypoint_eta(wps, waypoint_index) ==
    IF waypoint_index < 0 \/ waypoint_index >= Len(wps) THEN 0
    ELSE IF waypoint_index = 0 THEN 0
    ELSE calculate_waypoint_eta(wps, waypoint_index - 1)
         + geodesic(wps[waypoint_index], wps[waypoint_index + 1])
              * (3600 \div avg_speed_kmh)
         + wps[waypoint_index].estimated_time

\* passenger_routes: passenger id -> segment, for the passengers that have both
\* a pickup and a dropoff (any waypoint that is no pickup) among the input
\* waypoints.  The passengers are visited in the order of their first waypoint;
\* when geodesic(pickup, dropoff) raises for one, the handler at line 366
\* returns the segments built so far.  (_calculate_waypoint_eta cannot raise
\* here: a route of two or more waypoints with a latitude out of range has
\* raised in _calculate_total_distance before.)
calculate_passenger_routes(route, objs) ==
    LET pids == {objs[i].passenger_id : i \in DOMAIN objs}
        first(p) == FirstIndex({k \in DOMAIN objs : objs[k].passenger_id = p})
        pickup(p) == LastIndex({k \in DOMAIN objs : objs[k].passenger_id = p /\ objs[k].type = "pickup"})
        dropoff(p) == LastIndex({k \in DOMAIN objs : objs[k].passenger_id = p /\ objs[k].type # "pickup"})
        paired == {p \in pids : pickup(p) # 0 /\ dropoff(p) # 0}
        raises(p) == geodesic_raises(objs[pickup(p)], objs[dropoff(p)])
        both == {p \in paired : \A q \in paired : raises(q) => first(p) < first(q)}
        index(i) == FirstIndex({k \in DOMAIN route : route[k].id = objs[i].id}) - 1
    IN  [p \in both |->
            LET pickup_index == index(pickup(p))
                dropoff_index == index(dropoff(p))
                pickup_eta == calculate_waypoint_eta(route, pickup_index)
                dropoff_eta == calculate_waypoint_eta(route, dropoff_index)
            IN  [pickup_order |-> pickup_index + 1,
                 dropoff_order |-> dropoff_index + 1,
                 estimated_pickup_time |-> pickup_eta,
                 estimated_dropoff_time |-> dropoff_eta,
                 estimated_ride_time_minutes |->
                     RoundHalfEven(dropoff_eta - pickup_eta, 6)]]

----------------------------------------------------------------------------
(* The cache key and the results of optimize_route *)

\* sorted(waypoints, key=(latitude, longitude)): a stable sort by position
RECURSIVE sorted_waypoints(_)
sorted_waypoints(wps) ==
    IF wps = <<>> THEN <<>>
    ELSE LET least == CHOOSE x \in {wps[i].pos : i \in DOMAIN wps} :
                          \A i \in DOMAIN wps : x <= wps[i].pos
         IN  SelectSeq(wps, LAMBDA wp : wp.pos = least)
                \o sorted_waypoints(SelectSeq(wps, LAMBDA wp : wp.pos # least))

\* the text that is hashed: str(sorted_waypoints) + str(constraints or {})
generate_route_cache_key(wps, c) ==
    [sorted_waypoints |-> sorted_waypoints(wps), constraints |-> c]

\* RedisClient.setex, then what RedisClient.get answers for each key
redis_setex(cache, key, value) ==
    [k \in DOMAIN cache \cup {key} |-> IF k = key THEN value ELSE cache[k]]

fallback_route_optimization(wps) ==
    [optimized_waypoints |-> wps,
     total_distance_km |-> fallback_total_distance_km,
     total_time_minutes |-> fallback_total_time_minutes,
     efficiency_score |-> fallback_efficiency_score,
     total_passengers |-> Cardinality({wps[i].passenger_id : i \in DOMAIN wps}),
     passenger_routes |-> [p \in {} |-> 0],
     algorithm |-> "fallback"]

\* mutant: the passenger count is not validated
entry_exception_unvalidated(wps, c, cache) ==
    IF Len(wps) < 2
    THEN "ValueError: At least 2 waypoints required"
    ELSE IF generate_route_cache_key(wps, c) \in DOMAIN cache
    THEN "TypeError: the JSON object must be str, bytes or bytearray, not dict"
    ELSE "none"

\* the exception raised before sequencing starts (lines 68-91), "none" if none
entry_exception(wps, c, cache) ==
    LET objs == parse_waypoints(wps)
        max_passengers == Min(constraints_get(c), self_max_passengers)
        passengers == {objs[i].passenger_id : i \in DOMAIN objs} \ {NoPassenger}
    IN  IF Len(objs) < 2
        THEN "ValueError: At least 2 waypoints required"
        ELSE IF generate_route_cache_key(wps, c) \in DOMAIN cache
        THEN "TypeError: the JSON object must be str, bytes or bytearray, not dict"
        ELSE IF Cardinality(passengers) > max_passengers
        THEN "ValueError: Too many passengers"
        ELSE "none"

\* the result dict built at lines 96-115
route_result(route, objs) ==
    [optimized_waypoints |->
        [i \in DOMAIN route |-> [type |-> route[i].type, pos |-> route[i].pos,
                                 passenger_id |-> route[i].passenger_id]],
     total_distance_km |-> calculate_total_distance(route),
     total_time_minutes |-> RoundHalfEven(calculate_total_time(route), 6),
     efficiency_score |-> calculate_efficiency_score(route, objs),
     total_passengers |->
        Cardinality({objs[i].passenger_id : i \in DOMAIN objs} \ {NoPassenger}),
     passenger_routes |-> calculate_passenger_routes(route, objs),
     algorithm |-> "genetic_algorithm"]

\* mutant: the failure of the metrics is swallowed and the fallback returned as
\* the result of the computation
evaluation_swallowing(route, wps) ==
    IF total_distance_raises(route)
    THEN [caught |-> "none", value |-> fallback_route_optimization(wps)]
    ELSE [caught |-> "none", value |-> route_result(route, parse_waypoints(wps))]

\* lines 166-124 for the sequenced order `route': the exception caught at line
\* 126 ("none" if none) and the dict returned
\* (the handler at line 180 calls _calculate_total_distance on the input, which
\* holds every waypoint of the route and raises again)
evaluation(route, wps) ==
    IF total_distance_raises(route)
    THEN [caught |-> "ValueError: Latitude must be in the [-90; 90] range.",
          value |-> fallback_route_optimization(wps)]
    ELSE [caught |-> "none", value |-> route_result(route, parse_waypoints(wps))]

\* optimize_route always returns: every exception is caught at line 126
Returned(value) == [outcome |-> "return", value |-> value]
NoResult == [outcome |-> "none"]

LoopState ==
    [optimized_route |-> optimized_route,
     remaining_pickups |-> remaining_pickups,
     remaining_dropoffs |-> remaining_dropoffs,
     passenger_in_car |-> passenger_in_car,
     current_location |-> current_location,
     branch |-> branch]

SetLoopState(s) ==
    /\ optimized_route' = s.optimized_route
    /\ remaining_pickups' = s.remaining_pickups
    /\ remaining_dropoffs' = s.remaining_dropoffs
    /\ passenger_in_car' = s.passenger_in_car
    /\ current_location' = s.current_location
    /\ branch' = s.branch

Completed(wps, c, res, exc) ==
    Append(history, [waypoints |-> wps, constraints |-> c, result |-> res,
                     caught |-> exc])

----------------------------------------------------------------------------
(* The call as a function of the request and the cache *)

\* the while loop of _optimize_multi_passenger_route, run to its end
RECURSIVE run_loop(_, _, _)
run_loop(s, c, objs) ==
    IF s.branch # "greedy" \/ ~loop_continues(s) THEN s
    ELSE IF loop_raises(s, c) THEN loop_except(s, pickups_of(objs), dropoffs_of(objs))
    ELSE IF next_waypoint(s, c) = NoWaypoint THEN loop_fallback(s)
    ELSE run_loop(loop_visit(s, next_waypoint(s, c)), c, objs)

\* what optimize_route(wps, c) returns when the cache holds `cache'
optimize_route(wps, c, cache) ==
    IF entry_exception(wps, c, cache) # "none"
    THEN fallback_route_optimization(wps)
    ELSE evaluation(run_loop(sequence_entry(parse_waypoints(wps)), c,
                             parse_waypoints(wps)).optimized_route, wps).value

EmptyCache == [k \in {} |-> 0]

----------------------------------------------------------------------------
(* Ride matching: numbers *)

\* Scores are exact fractions [num, den] in lowest terms, den > 0, num >= 0.
RECURSIVE GCD(_, _)
GCD(a, b) == IF b = 0 THEN a ELSE GCD(b, a % b)

Rat(n, d) == [num |-> n \div GCD(n, d), den |-> d \div GCD(n, d)]

RatAdd(a, b) ==
    LET g == GCD(a.den, b.den)
    IN  Rat(a.num * (b.den \div g) + b.num * (a.den \div g), (a.den \div g) * b.den)

\* a * n / d
RatScale(a, n, d) == Rat(a.num * n, a.den * d)

RatLess(a, b) ==
    a.num * (b.den \div GCD(a.den, b.den)) < b.num * (a.den \div GCD(a.den, b.den))

RatMin(a, b) == IF RatLess(b, a) THEN b ELSE a

\* max(0, 1 - n / d) for n >= 0, d > 0
OneMinus(n, d) == IF n >= d THEN Rat(0, 1) ELSE Rat(d - n, d)

\* round(x, 3), in thousandths: three digits of long division, then the
\* remainder decides as RoundHalfEven does
round3(x) ==
    LET d1 == ((x.num % x.den) * 10) \div x.den
        r1 == ((x.num % x.den) * 10) % x.den
        d2 == (r1 * 10) \div x.den
        r2 == (r1 * 10) % x.den
        d3 == (r2 * 10) \div x.den
        r3 == (r2 * 10) % x.den
        q == (x.num \div x.den) * 1000 + d1 * 100 + d2 * 10 + d3
    IN  IF 2 * r3 < x.den THEN q
        ELSE IF 2 * r3 > x.den THEN q + 1
        ELSE IF q % 2 = 0 THEN q ELSE q + 1

----------------------------------------------------------------------------
(* Ride matching: requests and rides *)

\* self.weights, in hundredths
weights ==
    [distance |-> 25, time |-> 20, price |-> 15, driver_rating |-> 15,
     vehicle |-> 10, route_efficiency |-> 10, availability |-> 5]

\* `match.compatibility_score > 0.3'
minimum_threshold == Rat(3, 10)

\* `matches[:20]'
max_results == 20

\* the defaults of preferences.get
default_max_distance == 10
default_max_time_difference == 2
default_seats_needed == 1

\* _estimate_times: avg_speed
match_avg_speed == 40

\* (0.0, 0.0), the point _parse_postgis_point returns for what it cannot
\* parse: the equator, 10002 km north of the pole
default_point == 10002

\* A preference is the set of values the preferences dict binds its key to:
\* {} when the key is absent, {v} when it is v.
preferences_get(p, default) == IF p = {} THEN default ELSE CHOOSE v \in p : TRUE

NoPreferences ==
    [max_distance |-> {}, max_time_difference |-> {}, max_price |-> {},
     seats_needed |-> {}, max_age |-> {}]

NoRequest == [origin |-> 0, destination |-> 0, departure_time |-> 0,
              preferences |-> NoPreferences]

\* What a row carries in origin_coordinates / destination_coordinates:
\*   [form |-> "point", pos |-> p]  a point the parser reads, p km along the meridian
\*   [form |-> "null"]              NULL: the row gets no origin_lat / origin_lng
\*   [form |-> "text"]              text that is not `POINT(lng lat)'
\*   [form |-> "short"]             a `coordinates' list of fewer than two numbers
Point(p) == [form |-> "point", pos |-> p]
NullPoint == [form |-> "null", pos |-> 0]
TextPoint == [form |-> "text", pos |-> 0]
ShortPoint == [form |-> "short", pos |-> 0]

\* _parse_postgis_point, then ride['origin_lat'], ride['origin_lng'] = ...
\* (lines 166-174): the position, or "null" when the keys are not set
parse_postgis_point(c) ==
    IF c.form = "point" THEN c
    ELSE IF c.form = "text" THEN Point(default_point)      \* except: return 0.0, 0.0
    ELSE c

\* coords[1] raises IndexError
parse_raises(c) == c.form = "short"

\* the rows converted by _get_available_rides; [] when the conversion raises
get_available_rides(table) ==
    IF \E i \in DOMAIN table : \/ parse_raises(table[i].origin_coordinates)
                              \/ parse_raises(table[i].destination_coordinates)
    THEN <<>>
    ELSE [i \in DOMAIN table |->
            [ride_id |-> table[i].ride_id,
             origin |-> parse_postgis_point(table[i].origin_coordinates),
             destination |-> parse_postgis_point(table[i].destination_coordinates),
             departure_time |-> table[i].departure_time,
             available_seats |-> table[i].available_seats,
             price_per_seat |-> table[i].price_per_seat,
             driver_rating |-> table[i].driver_rating,
             vehicle_age |-> table[i].vehicle_age]]

----------------------------------------------------------------------------
(* Ride matching: the scorer *)

\* max(0, 1 - (origin_distance + destination_distance) / (2 * max_acceptable_distance))
distance_score(ride, req) ==
    OneMinus(geodesic(req.origin, ride.origin) + geodesic(req.destination, ride.destination),
             2 * preferences_get(req.preferences.max_distance, default_max_distance))

\* abs((departure_time - ride_departure).total_seconds() / 3600), in hours
time_deviation(ride, req) ==
    IF req.departure_time >= ride.departure_time
    THEN req.departure_time - ride.departure_time
    ELSE ride.departure_time - req.departure_time

time_score(ride, req) ==
    OneMinus(time_deviation(ride, req),
             preferences_get(req.preferences.max_time_difference, default_max_time_difference))

\* twice preferences.get('max_price', price_per_seat * 1.5)
twice_max_price(ride, req) ==
    IF req.preferences.max_price = {} THEN 3 * ride.price_per_seat
    ELSE 2 * preferences_get(req.preferences.max_price, 0)

\* max(0, 1 - max(0, price_per_seat - max_price) / max_price)
price_score(ride, req) ==
    OneMinus(Max(0, 2 * ride.price_per_seat - twice_max_price(ride, req)),
             twice_max_price(ride, req))

\* mutant: the rating is divided by 4 without being moved to the 0-4 scale
rating_score_unshifted(ride) == Rat(ride.driver_rating, 4)

\* (driver_rating - 1) / 4
rating_score(ride) == Rat(ride.driver_rating - 1, 4)

\* 1.0 without vehicle preferences, 0.7 for a vehicle older than max_age
calculate_vehicle_score(ride, req) ==
    IF req.preferences.max_age = {} THEN Rat(1, 1)
    ELSE IF ride.vehicle_age > preferences_get(req.preferences.max_age, 0)
    THEN Rat(7, 10)
    ELSE Rat(1, 1)

calculate_route_efficiency(ride, req) ==
    LET passenger_direct == geodesic(req.origin, req.destination)
        total_via_ride == geodesic(req.origin, ride.origin)
                            + geodesic(ride.origin, ride.destination)
                            + geodesic(ride.destination, req.destination)
    IN  IF total_via_ride = 0 THEN Rat(0, 1)
        ELSE RatMin(Rat(1, 1), Rat(passenger_direct, total_via_ride))

\* min(1.0, ride['available_seats'] / preferences.get('seats_needed', 1))
availability_score(ride, req) ==
    RatMin(Rat(1, 1),
           Rat(ride.available_seats,
               preferences_get(req.preferences.seats_needed, default_seats_needed)))

\* the exception the try block of _calculate_compatibility raises, "none" if none
compatibility_exception(ride, req) ==
    IF ride.origin.form = "null" \/ ride.destination.form = "null"
    THEN "KeyError: 'origin_lat'"
    ELSE IF \/ geodesic_raises(req.origin, ride.origin)
            \/ geodesic_raises(req.destination, ride.destination)
    THEN "ValueError: Latitude must be in the [-90; 90] range."
    ELSE IF \/ preferences_get(req.preferences.max_distance, default_max_distance) = 0
            \/ preferences_get(req.preferences.max_time_difference,
                               default_max_time_difference) = 0
            \/ twice_max_price(ride, req) = 0
            \/ preferences_get(req.preferences.seats_needed, default_seats_needed) = 0
    THEN "ZeroDivisionError: division by zero"
    ELSE "none"

\* the weighted sum of lines 230-238
compatibility_score(ride, req) ==
    RatAdd(RatScale(distance_score(ride, req), weights.distance, 100),
    RatAdd(RatScale(time_score(ride, req), weights.time, 100),
    RatAdd(RatScale(price_score(ride, req), weights.price, 100),
    RatAdd(RatScale(rating_score(ride), weights.driver_rating, 100),
    RatAdd(RatScale(calculate_vehicle_score(ride, req), weights.vehicle, 100),
    RatAdd(RatScale(calculate_route_efficiency(ride, req), weights.route_efficiency, 100),
           RatScale(availability_score(ride, req), weights.availability, 100)))))))

\* _estimate_times, in half minutes since the hour 0
estimate_pickup_time(ride, req) ==
    120 * ride.departure_time
      + (120 * geodesic(req.origin, ride.origin)) \div match_avg_speed

estimate_arrival_time(ride, req) ==
    estimate_pickup_time(ride, req)
      + (120 * geodesic(req.destination, ride.destination)) \div match_avg_speed

\* None
NoMatch == [ride_id |-> 0]

\* _calculate_compatibility: the RideMatch, or None when the try block raises
calculate_compatibility(ride, req) ==
    IF compatibility_exception(ride, req) # "none" THEN NoMatch
    ELSE [ride_id |-> ride.ride_id,
          compatibility_score |-> compatibility_score(ride, req),
          distance_from_origin |-> geodesic(req.origin, ride.origin),
          distance_to_destination |-> geodesic(req.destination, ride.destination),
          time_deviation |-> time_deviation(ride, req),
          price_per_seat |-> ride.price_per_seat,
          available_seats |-> ride.available_seats,
          driver_rating |-> ride.driver_rating,
          estimated_pickup_time |-> estimate_pickup_time(ride, req),
          estimated_arrival_time |-> estimate_arrival_time(ride, req),
          route_efficiency |-> calculate_route_efficiency(ride, req)]

\* `if match and match.compatibility_score > 0.3'
qualifies(match) ==
    match # NoMatch /\ RatLess(minimum_threshold, match.compatibility_score)

\* _match_to_dict: the score and the efficiency rounded to thousandths
match_to_dict(match) ==
    [ride_id |-> match.ride_id,
     compatibility_score |-> round3(match.compatibility_score),
     distance_from_origin |-> match.distance_from_origin,
     distance_to_destination |-> match.distance_to_destination,
     time_deviation_hours |-> match.time_deviation,
     price_per_seat |-> match.price_per_seat,
     available_seats |-> match.available_seats,
     driver_rating |-> match.driver_rating,
     estimated_pickup_time |-> match.estimated_pickup_time,
     estimated_arrival_time |-> match.estimated_arrival_time,
     route_efficiency |-> round3(match.route_efficiency)]

----------------------------------------------------------------------------
(* The actions *)

Init ==
    /\ waypoints = <<>>
    /\ constraints = {}
    /\ pc = "idle"
    /\ optimized_route = <<>>
    /\ remaining_pickups = <<>>
    /\ remaining_dropoffs = <<>>
    /\ passenger_in_car = {}
    /\ current_location = NoWaypoint
    /\ branch = "none"
    /\ result = NoResult
    /\ caught = "none"
    /\ redis = EmptyCache
    /\ history = <<>>
    /\ request = NoRequest
    /\ rows = <<>>
    /\ available_rides = <<>>
    /\ matches = <<>>
    /\ scored = 0
    /\ match_pc = "idle"
    /\ match_result = NoResult

\* optimize_route(wps, c) up to the first iteration of the while loop
\* (lines 68-94, 155-164, 196-208)
Begin(wps, c) ==
    /\ waypoints' = wps
    /\ constraints' = c
    /\ LET exc == entry_exception(wps, c, redis)
           s == sequence_entry(parse_waypoints(wps))
       IN  IF exc # "none"
           THEN /\ caught' = exc
                /\ result' = Returned(fallback_route_optimization(wps))
                /\ history' = Completed(wps, c, result', exc)
                /\ pc' = "done"
                /\ SetLoopState([LoopState EXCEPT !.optimized_route = <<>>,
                                                  !.remaining_pickups = <<>>,
                                                  !.remaining_dropoffs = <<>>,
                                                  !.passenger_in_car = {},
                                                  !.current_location = NoWaypoint,
                                                  !.branch = "none"])
           ELSE /\ caught' = "none"
                /\ result' = NoResult
                /\ history' = history
                /\ SetLoopState(s)
                /\ pc' = IF s.branch = "greedy" /\ loop_continues(s)
                         THEN "loop" ELSE "evaluate"
    /\ UNCHANGED redis
    /\ UNCHANGED matchvars

\* an iteration of the while loop that appends the nearest candidate
Visit ==
    /\ pc = "loop"
    /\ ~loop_raises(LoopState, constraints)
    /\ next_waypoint(LoopState, constraints) # NoWaypoint
    /\ LET s == loop_visit(LoopState, next_waypoint(LoopState, constraints))
       IN  /\ SetLoopState(s)
           /\ pc' = IF loop_continues(s) THEN "loop" ELSE "evaluate"
    /\ UNCHANGED <<waypoints, constraints, result, caught, redis, history>>
    /\ UNCHANGED matchvars

\* the iteration that finds no candidate: append the rest and break
Fallback ==
    /\ pc = "loop"
    /\ ~loop_raises(LoopState, constraints)
    /\ next_waypoint(LoopState, constraints) = NoWaypoint
    /\ SetLoopState(loop_fallback(LoopState))
    /\ pc' = "evaluate"
    /\ UNCHANGED <<waypoints, constraints, result, caught, redis, history>>
    /\ UNCHANGED matchvars

\* the iteration in which geodesic raises: the handler returns pickups + dropoffs
Except ==
    /\ pc = "loop"
    /\ loop_raises(LoopState, constraints)
    /\ SetLoopState(loop_except(LoopState, pickups_of(parse_waypoints(waypoints)),
                                dropoffs_of(parse_waypoints(waypoints))))
    /\ pc' = "evaluate"
    /\ UNCHANGED <<waypoints, constraints, result, caught, redis, history>>
    /\ UNCHANGED matchvars

\* lines 166-124: the metrics, the passenger routes, the cache write, the return
Evaluate ==
    /\ pc = "evaluate"
    /\ LET e == evaluation(optimized_route, waypoints)
       IN  /\ result' = Returned(e.value)
           /\ caught' = e.caught
           /\ redis' = IF e.caught = "none"
                       THEN redis_setex(redis,
                               generate_route_cache_key(waypoints, constraints), e.value)
                       ELSE redis
           /\ history' = Completed(waypoints, constraints, result', e.caught)
    /\ pc' = "done"
    /\ UNCHANGED <<waypoints, constraints, loopvars>>
    /\ UNCHANGED matchvars

Requests(n) == SeqsUpTo(RawWaypoints, n) \X ConstraintValues

\* one call on a fresh service instance
Call ==
    /\ pc = "idle"
    /\ \E r \in Requests(MaxLen) : Begin(r[1], r[2])

Next == Call \/ Visit \/ Fallback \/ Evaluate

Spec == Init /\ [][Next]_vars

\* the waypoint dicts of the termination study, all at one place: how far
\* apart the waypoints are plays no part in whether the loop ends
LiveWaypoints == [type : WaypointTypes, pos : {0}, passenger_id : PassengerIds]

CallLive ==
    /\ pc = "idle"
    /\ \E wps \in SeqsUpTo(LiveWaypoints, LiveMaxLen), c \in ConstraintValues :
          Begin(wps, c)

NextLive == CallLive \/ Visit \/ Fallback \/ Evaluate

\* one call, with the progress of its loop: optimize_route runs on one thread
\* and waits for nothing inside the while loop, so an iteration that can run
\* does run
SpecLive == Init /\ [][NextLive]_vars /\ WF_vars(Visit) /\ WF_vars(Fallback)

\* a service instance that serves MaxCalls calls, one after the other
CallAgain ==
    /\ pc \in {"idle", "done"}
    /\ Len(history) < MaxCalls
    /\ \E r \in Requests(CacheMaxLen) : Begin(r[1], r[2])

NextCache == CallAgain \/ Visit \/ Fallback \/ Evaluate

SpecCache == Init /\ [][NextCache]_vars

\* one call with a request the service does not validate
CallEdge ==
    /\ pc = "idle"
    /\ \E wps \in SeqsUpTo(EdgeWaypoints, EdgeMaxLen) : Begin(wps, {})

NextEdge == CallEdge \/ Visit \/ Fallback \/ Except \/ Evaluate

SpecEdge == Init /\ [][NextEdge]_vars

\* the same request a second time, once the first call has returned
Repeat ==
    /\ pc = "done"
    /\ Len(history) = 1
    /\ Begin(waypoints, constraints)

\* setex(cache_key, self.cache_ttl, ...): the entry of the request expires
Expire ==
    /\ pc = "done"
    /\ generate_route_cache_key(waypoints, constraints) \in DOMAIN redis
    /\ redis' = [k \in DOMAIN redis \ {generate_route_cache_key(waypoints, constraints)}
                   |-> redis[k]]
    /\ UNCHANGED <<waypoints, constraints, pc, loopvars, result, caught, history>>
    /\ UNCHANGED matchvars

NextRepeat == Call \/ Visit \/ Fallback \/ Evaluate \/ Expire \/ Repeat

\* a service instance that is sent the same request twice
SpecRepeat == Init /\ [][NextRepeat]_vars

\* the waypoint dicts of a request in which a waypoint may carry no passenger
AnonymousWaypoints ==
    [type : WaypointTypes, pos : Positions, passenger_id : {NoPassenger, "p1"}]

\* one call with such a request
CallAnonymous ==
    /\ pc = "idle"
    /\ \E wps \in SeqsUpTo(AnonymousWaypoints, AnonMaxLen), c \in ConstraintValues :
          Begin(wps, c)

NextAnonymous == CallAnonymous \/ Visit \/ Fallback \/ Evaluate

SpecAnonymous == Init /\ [][NextAnonymous]_vars

----------------------------------------------------------------------------
(* Ride matching: find_matches *)

\* matches.sort(key=lambda x: x.compatibility_score, reverse=True): the sort
\* is stable, so matches of equal score keep the order of available_rides
\* mutant: every match has the same key, which leaves the list as it is
sort_key_none(match) == Rat(0, 1)

\* key=lambda x: x.compatibility_score
sort_key(match) == match.compatibility_score

RECURSIVE sort_matches(_)
sort_matches(ms) ==
    IF ms = <<>> THEN <<>>
    ELSE LET sorted == sort_matches(SubSeq(ms, 1, Len(ms) - 1))
             last == ms[Len(ms)]
             \* the matches that stay ahead of the last one: those not below it
             ahead == Cardinality({j \in DOMAIN sorted :
                         ~RatLess(sort_key(sorted[j]), sort_key(last))})
         IN  SubSeq(sorted, 1, ahead) \o <<last>> \o SubSeq(sorted, ahead + 1, Len(sorted))

\* mutant: every sorted match is returned
ranked_untruncated(ms) ==
    LET sorted == sort_matches(ms)
    IN  [i \in DOMAIN ms |-> match_to_dict(sorted[i])]

\* lines 98-102: sort, keep the first 20, convert
ranked(ms) ==
    LET sorted == sort_matches(ms)
    IN  [i \in 1..Min(Len(ms), max_results) |-> match_to_dict(sorted[i])]

\* _generate_cache_key: the four arguments of the call.  (The code joins the
\* coordinates without a separator; with the longitude fixed, as it is here,
\* different requests still get different keys.)
generate_cache_key(req) ==
    [origin |-> req.origin, destination |-> req.destination,
     departure_time |-> req.departure_time, preferences |-> req.preferences]

\* datetime.fromisoformat raises ValueError: the departure time is no timestamp
departure_time_raises(req) == req.departure_time < 0

Raise(error) == [outcome |-> "raise", error |-> error]

\* mutant: a failure to score a ride ends the loop
next_scored_aborting(m) == IF m = NoMatch THEN Len(available_rides) ELSE scored + 1

\* the for loop moves to the next ride, whatever _calculate_compatibility returned
next_scored(m) == scored + 1

\* mutant: a call that finds no ride to offer raises
no_rides_raises == Raise("LookupError: no rides")

\* `return []' at line 89
no_rides == Returned(<<>>)

\* find_matches up to the first iteration of the for loop (lines 71-92), on a
\* database whose query returns `table'
Search(req, table) ==
    /\ request' = req
    /\ rows' = table
    /\ scored' = 0
    /\ matches' = <<>>
    /\ IF /\ generate_cache_key(req) \in DOMAIN redis
          /\ redis[generate_cache_key(req)] # <<>>
       THEN /\ match_result' = Returned(redis[generate_cache_key(req)])
            /\ available_rides' = <<>>
            /\ match_pc' = "done"
       ELSE IF departure_time_raises(req)
       THEN /\ match_result' = Raise("ValueError: Invalid isoformat string")
            /\ available_rides' = <<>>
            /\ match_pc' = "done"
       ELSE /\ available_rides' = get_available_rides(table)
            /\ IF available_rides' = <<>>
               THEN match_result' = no_rides /\ match_pc' = "done"
               ELSE match_result' = NoResult /\ match_pc' = "score"
    /\ UNCHANGED <<waypoints, constraints, pc, loopvars, result, caught, redis, history>>

\* one iteration of the for loop at line 93
Score ==
    /\ match_pc = "score"
    /\ LET match == calculate_compatibility(available_rides[scored + 1], request)
       IN  /\ matches' = IF qualifies(match) THEN Append(matches, match) ELSE matches
           /\ scored' = next_scored(match)
    /\ match_pc' = IF scored' >= Len(available_rides) THEN "rank" ELSE "score"
    /\ UNCHANGED <<request, rows, available_rides, match_result>>
    /\ UNCHANGED <<waypoints, constraints, pc, loopvars, result, caught, redis, history>>

\* lines 98-108: sort, truncate, convert, cache, return
Rank ==
    /\ match_pc = "rank"
    /\ LET converted == ranked(matches)
       IN  /\ match_result' = Returned(converted)
           /\ redis' = redis_setex(redis, generate_cache_key(request), converted)
    /\ match_pc' = "done"
    /\ UNCHANGED <<request, rows, available_rides, matches, scored>>
    /\ UNCHANGED <<waypoints, constraints, pc, loopvars, result, caught, history>>

----------------------------------------------------------------------------
(* Ride matching: the searches studied *)

\* a row of the query at lines 123-156
Row(o, d, t, seats, price, rating, age) ==
    [origin_coordinates |-> o, destination_coordinates |-> d, departure_time |-> t,
     available_seats |-> seats, price_per_seat |-> price, driver_rating |-> rating,
     vehicle_age |-> age]

\* the table in which each of `kinds' stands `copies' times, ride ids 1, 2, ...
Table(kinds, copies) ==
    [i \in 1..(Len(kinds) * copies) |->
        [ride_id |-> i] @@ kinds[((i - 1) \div copies) + 1]]

\* ORDER BY r.departure_time
OrderedByDeparture(kinds) ==
    \A i \in 1..(Len(kinds) - 1) : kinds[i].departure_time <= kinds[i + 1].departure_time

\* the request of the ranking study: 1 km -> 2 km at hour 2
MatchRequests ==
    {[origin |-> [pos |-> 1], destination |-> [pos |-> 2], departure_time |-> 2,
      preferences |-> [NoPreferences EXCEPT !.max_price = mp]] : mp \in {{}, {10}}}

\* the rides of the ranking study: within the time window, a seat available,
\* price 20, rating 1; near to the passenger or far, leaving now or 2 h later
MatchRows ==
    {Row(o, d, t, 1, 20, 1, 3) :
        o \in {Point(0), Point(1), Point(102), NullPoint},
        d \in {Point(3), Point(4)},
        t \in {2, 4}}

\* the tables of up to n kinds of ride, each standing once or c times
MatchTables(n, c) ==
    {Table(kinds, copies) :
        kinds \in {ks \in SeqsUpTo(MatchRows, n) : OrderedByDeparture(ks)},
        copies \in {1, c}}

\* one search on a fresh service instance
FindMatches ==
    /\ match_pc = "idle"
    /\ \E req \in MatchRequests, table \in MatchTables(MaxRides, Copies) : Search(req, table)

NextMatch == FindMatches \/ Score \/ Rank

SpecMatch == Init /\ [][NextMatch]_vars

\* the requests of the scorer study
OfferRequests ==
    {[origin |-> [pos |-> 1], destination |-> [pos |-> 2], departure_time |-> t,
      preferences |-> [max_distance |-> md, max_time_difference |-> {},
                       max_price |-> mp, seats_needed |-> sn, max_age |-> ma]] :
        t \in {2, 0 - 1}, md \in {{}, {0}, {1}}, mp \in {{}, {10}},
        sn \in {{}, {2}}, ma \in {{}, {5}}}

\* the offers of the scorer study, well formed or not
OfferRows ==
    {Row(o, d, t, seats, price, rating, age) :
        o \in {Point(1), Point(OutOfRange), NullPoint, TextPoint, ShortPoint},
        d \in {Point(2), Point(4), TextPoint},
        t \in {2, 3}, seats \in {1, 2}, price \in {0, 10, 15},
        rating \in {1, 3, 5}, age \in {3, 8}}

\* one search over a table of no offer or one offer
FindMatchesOffer ==
    /\ match_pc = "idle"
    /\ \E req \in OfferRequests, kinds \in SeqsUpTo(OfferRows, 1) :
          Search(req, Table(kinds, 1))

NextOffer == FindMatchesOffer \/ Score \/ Rank

SpecOffer == Init /\ [][NextOffer]_vars

----------------------------------------------------------------------------
(* Both services on one cache *)

\* the waypoint dicts of the cache study: a latitude may be out of range
SharedWaypoints ==
    [type : WaypointTypes, pos : {0, OutOfRange}, passenger_id : PassengerIds]

\* the first call of the route service
CallShared ==
    /\ pc = "idle"
    /\ \E wps \in SeqsUpTo(SharedWaypoints, SharedMaxLen), c \in ConstraintValues :
          Begin(wps, c)

\* the searches of the cache study: a departure time that parses or not
SharedSearches ==
    {[origin |-> [pos |-> 1], destination |-> [pos |-> 2], departure_time |-> t,
      preferences |-> NoPreferences] : t \in {2, 0 - 1}}

\* the offers of the cache study: one that qualifies, one too far away to, one
\* that cannot be scored, one that makes the query fail
SharedRows ==
    {Row(o, Point(2), 2, 1, 10, 3, 3) :
        o \in {Point(1), Point(102), NullPoint, ShortPoint}}

\* the first search of the matching service, over no offer or one offer
FindMatchesShared ==
    /\ match_pc = "idle"
    /\ \E req \in SharedSearches, kinds \in SeqsUpTo(SharedRows, 1) :
          Search(req, Table(kinds, 1))

\* the same search again, once the first has returned
SearchAgain ==
    /\ match_pc = "done"
    /\ Search(request, rows)

NextShared ==
    \/ CallShared \/ Visit \/ Fallback \/ Except \/ Evaluate \/ Repeat
    \/ FindMatchesShared \/ Score \/ Rank \/ SearchAgain

\* a route service and a matching service that share the cache, each sent a
\* request and then the same request again
SpecShared == Init /\ [][NextShared]_vars


----------------------------------------------------------------------------
(* What the claims speak about *)

waypoint_objects == parse_waypoints(waypoints)

passengers == {waypoint_objects[i].passenger_id : i \in DOMAIN waypoint_objects}

\* max_passengers of optimize_route, the limit validation uses (line 86)
max_passengers == Min(constraints_get(constraints), self_max_passengers)

\* sequencing has produced its output order, which optimized_route holds
Sequenced == pc \in {"evaluate", "done"} /\ branch # "none"

CountOf(objs, p, t) ==
    Cardinality({i \in DOMAIN objs : objs[i].passenger_id = p /\ objs[i].type = t})

\* exactly one pickup and one dropoff for every passenger of the input
OnePairPerPassenger(objs) ==
    \A i \in DOMAIN objs :
        /\ CountOf(objs, objs[i].passenger_id, "pickup") = 1
        /\ CountOf(objs, objs[i].passenger_id, "dropoff") = 1

\* a dropoff whose passenger has no pickup in the input
UnpairedDropoff(objs) ==
    \E i \in DOMAIN objs :
        /\ objs[i].type = "dropoff"
        /\ CountOf(objs, objs[i].passenger_id, "pickup") = 0

IndexIn(route, p, t) ==
    FirstIndex({k \in DOMAIN route : route[k].passenger_id = p /\ route[k].type = t})

\* the passengers aboard after the first k waypoints of route
RECURSIVE InVehicleAfter(_, _)
InVehicleAfter(route, k) ==
    IF k = 0 THEN {}
    ELSE IF route[k].type = "pickup"
         THEN InVehicleAfter(route, k - 1) \cup {route[k].passenger_id}
         ELSE InVehicleAfter(route, k - 1) \ {route[k].passenger_id}

Raised(error) == result.outcome = "raise" /\ result.error = error

----------------------------------------------------------------------------
(* C1 - C10 *)

\* C1: for an input with exactly one pickup and one dropoff per passenger,
\* every passenger's pickup stands at a strictly smaller index of the
\* sequenced order than that passenger's dropoff.
C1_PickupBeforeDropoff ==
    (Sequenced /\ OnePairPerPassenger(waypoint_objects)) =>
        \A p \in passengers :
            /\ IndexIn(optimized_route, p, "pickup") >= 1
            /\ IndexIn(optimized_route, p, "pickup")
                 < IndexIn(optimized_route, p, "dropoff")

\* the greedy loop has sequenced two pairs, one of which came dropoff first
C1_Witness ==
    /\ Sequenced
    /\ branch = "greedy"
    /\ OnePairPerPassenger(waypoint_objects)
    /\ Cardinality(passengers) = 2
    /\ \E p \in passengers :
          IndexIn(waypoint_objects, p, "dropoff") < IndexIn(waypoint_objects, p, "pickup")

\* C2: the sequenced order is a permutation of the input waypoints: the same
\* length, and every input waypoint at exactly one index.  Checked for every
\* input of pickups and dropoffs, paired or not, so that the single-pair
\* shortcut, the greedy loop and the fallback branch are all covered.
C2_Permutation ==
    Sequenced =>
        /\ Len(optimized_route) = Len(waypoint_objects)
        /\ \A i \in DOMAIN waypoint_objects :
              Cardinality({j \in DOMAIN optimized_route :
                             optimized_route[j] = waypoint_objects[i]}) = 1

\* two pairs were sequenced by the greedy loop into an order other than the input's
C2_Witness ==
    /\ Sequenced
    /\ branch = "greedy"
    /\ OnePairPerPassenger(waypoint_objects)
    /\ Len(waypoint_objects) = 4
    /\ optimized_route # waypoint_objects

\* C3: while the sequencing loop runs and when its output (also a partial one)
\* is replayed, the number of distinct passengers aboard never exceeds
\* max_passengers.
C3_Capacity ==
    (pc \in {"loop", "evaluate", "done"} /\ branch # "none") =>
        /\ Cardinality(passenger_in_car) <= max_passengers
        /\ \A k \in 0..Len(optimized_route) :
              Cardinality(InVehicleAfter(optimized_route, k)) <= max_passengers

\* the loop is at an iteration where two passengers fill the vehicle
C3_Witness ==
    /\ pc = "loop"
    /\ Cardinality(passenger_in_car) = max_passengers
    /\ Cardinality(passenger_in_car) = 2
    /\ optimized_route # <<>>

\* C4: a call with fewer than 2 waypoints ends in an InvalidInput error thrown
\* to the caller, and returns no route.
C4_TooFewWaypointsRaises ==
    (pc = "done" /\ Len(waypoints) < 2) => Raised("InvalidInput")

\* C5: a call with more distinct passengers than max_passengers ends in a
\* CapacityExceeded error surfaced to the caller, and returns no route.
C5_TooManyPassengersRaises ==
    (pc = "done" /\ Len(waypoints) >= 2 /\ Cardinality(passengers) > max_passengers)
        => Raised("CapacityExceeded")

\* C6: for an input with a dropoff whose passenger has no pickup, sequencing
\* produces no output order and the call fails with InvalidInput.
C6_UnpairedDropoffRaises ==
    (pc # "idle" /\ Len(waypoints) >= 2 /\ UnpairedDropoff(waypoint_objects)
                 /\ Cardinality(passengers) <= max_passengers) =>
        /\ ~Sequenced
        /\ pc = "done" => Raised("InvalidInput")

\* C7: when the evaluator has run on a route from which a passenger's pickup or
\* dropoff is absent, the call fails with IncompleteRoute.
C7_IncompleteRouteRaises ==
    (pc = "done" /\ caught = "none"
       /\ \E p \in passengers :
             \/ IndexIn(optimized_route, p, "pickup") = 0
             \/ IndexIn(optimized_route, p, "dropoff") = 0)
        => Raised("IncompleteRoute")

\* C8: when sequencing or evaluation has failed, the call ends in a typed error
\* or a null result: it returns no dict, so no number stands in for the result
\* of the computation that failed.
C8_FailureIsNotPapered ==
    (/\ pc = "done"
     /\ \/ branch = "except"
        \/ caught = "ValueError: Latitude must be in the [-90; 90] range."
        \/ /\ caught = "none"
           /\ efficiency_score_raises(optimized_route, waypoint_objects))
        => result.outcome \in {"raise", "null"}

\* C9: whatever the cache holds under the key of a request is the result of
\* that request: no two requests with different results share a cache key.
C9_KeyDeterminesResult ==
    (pc # "idle" /\ generate_route_cache_key(waypoints, constraints) \in DOMAIN redis) =>
        redis[generate_route_cache_key(waypoints, constraints)]
            = optimize_route(waypoints, constraints, EmptyCache)

\* C10: the result a call returns is the result of its request alone, whatever
\* calls the service instance served before.
C10_ResultIndependentOfOtherCalls ==
    pc = "done" => result = Returned(optimize_route(waypoints, constraints, EmptyCache))

----------------------------------------------------------------------------
(* C12 - C20 *)

\* find_matches has returned a list to its caller
MatchReturned == match_pc = "done" /\ match_result.outcome = "return"

\* the RideMatch kept for a ride, with its unrounded score
MatchOf(ride_id) == CHOOSE m \in {matches[i] : i \in DOMAIN matches} : m.ride_id = ride_id

\* the ride ids of a list of matches or of result dicts
RideIds(s) == {s[i].ride_id : i \in DOMAIN s}

\* what the scorer returns for the i-th ride of the search
ScoredAs(i) == calculate_compatibility(available_rides[i], request)

InUnit(x) == ~RatLess(Rat(1, 1), x)

\* C12: the list find_matches returns is in descending order of the score its
\* entries carry: no entry is followed by one with a strictly higher score.
C12_SortedByScore ==
    MatchReturned =>
        \A i, j \in DOMAIN match_result.value :
            i < j => match_result.value[i].compatibility_score
                       >= match_result.value[j].compatibility_score

\* the sort moved a later ride of higher score ahead of an earlier one
C12_Witness ==
    /\ MatchReturned
    /\ Len(match_result.value) >= 2
    /\ match_result.value[1].ride_id > match_result.value[2].ride_id
    /\ match_result.value[1].compatibility_score
         > match_result.value[2].compatibility_score

\* C13: every entry of the list find_matches returns carries a score strictly
\* above 0.3 (300 thousandths), and a search whose rides score 0.3 or less
\* returns without an exception.
C13_AboveThreshold ==
    (match_pc = "done" /\ ~departure_time_raises(request)) =>
        /\ match_result.outcome = "return"
        /\ \A i \in DOMAIN match_result.value :
              match_result.value[i].compatibility_score > 300

\* C14: among returned entries of equal score the one nearer to the origin
\* comes first, and among those at the same origin distance the one with the
\* lower ride id.
C14_TieBreak ==
    MatchReturned =>
        \A i, j \in DOMAIN match_result.value :
            (/\ i < j
             /\ MatchOf(match_result.value[i].ride_id).compatibility_score
                  = MatchOf(match_result.value[j].ride_id).compatibility_score)
                => \/ match_result.value[i].distance_from_origin
                        < match_result.value[j].distance_from_origin
                   \/ /\ match_result.value[i].distance_from_origin
                           = match_result.value[j].distance_from_origin
                      /\ match_result.value[i].ride_id < match_result.value[j].ride_id

\* C15: find_matches returns min(20, number of qualifying rides) entries, no
\* qualifying ride left out scores strictly higher than a returned one, and an
\* empty table yields an empty list.
C15_LimitKeepsBest ==
    MatchReturned =>
        /\ Len(match_result.value) <= max_results
        /\ Len(match_result.value) = Min(Len(matches), max_results)
        /\ RideIds(match_result.value) \subseteq RideIds(matches)
        /\ \A r \in RideIds(match_result.value) :
              \A m \in RideIds(matches) \ RideIds(match_result.value) :
                  ~RatLess(MatchOf(r).compatibility_score, MatchOf(m).compatibility_score)
        /\ rows = <<>> => match_result.value = <<>>

\* more than 20 rides qualified, of two different scores, and 20 were returned
C15_Witness ==
    /\ MatchReturned
    /\ Len(matches) > max_results
    /\ Len(match_result.value) = max_results
    /\ \E m \in RideIds(matches) \ RideIds(match_result.value) :
          RatLess(MatchOf(m).compatibility_score,
                  MatchOf(match_result.value[1].ride_id).compatibility_score)

\* C16: a search (with a departure time that parses) in which no ride
\* qualifies - no row, or every row scored None or 0.3 or less - returns the
\* empty list and raises nothing.
C16_EmptyWhenNoneQualifies ==
    (/\ match_pc = "done"
     /\ ~departure_time_raises(request)
     /\ \A i \in DOMAIN get_available_rides(rows) :
           ~qualifies(calculate_compatibility(get_available_rides(rows)[i], request)))
        => match_result = Returned(<<>>)

\* a ride was scored, did not qualify, and the search returned the empty list
C16_Witness ==
    /\ match_pc = "done"
    /\ scored = 1
    /\ ScoredAs(1) # NoMatch
    /\ ~qualifies(ScoredAs(1))
    /\ match_result = Returned(<<>>)

\* C17: when the scorer fails on a ride (returns None), the loop still scores
\* every other ride: all rides have been scored when the loop ends, every
\* qualifying ride is kept, and the failing ride is in neither the kept
\* matches nor the returned list.
C17_ScoringFailureIsLocal ==
    (match_pc \in {"rank", "done"} /\ available_rides # <<>>) =>
        /\ scored = Len(available_rides)
        /\ \A i \in DOMAIN available_rides :
              /\ qualifies(ScoredAs(i)) => ScoredAs(i) \in {matches[k] : k \in DOMAIN matches}
              /\ ScoredAs(i) = NoMatch =>
                    /\ available_rides[i].ride_id \notin RideIds(matches)
                    /\ MatchReturned =>
                          available_rides[i].ride_id \notin RideIds(match_result.value)

\* the scorer failed on the first ride and the second ride was returned
C17_Witness ==
    /\ MatchReturned
    /\ Len(available_rides) = 2
    /\ ScoredAs(1) = NoMatch
    /\ RideIds(match_result.value) = {available_rides[2].ride_id}

\* C18: for a ride whose origin or destination coordinates are missing or
\* malformed the scorer returns None: it produces no score from coordinates
\* put in their place.
C18_MalformedOfferScoresNone ==
    \A i \in 1..scored :
        (\/ rows[i].origin_coordinates.form # "point"
         \/ rows[i].destination_coordinates.form # "point")
            => ScoredAs(i) = NoMatch

C20_EfficiencyScore ==
    (pc = "done" /\ result.outcome = "return") =>
        /\ result.value.efficiency_score \in 0..1000
        /\ (caught = "none" /\ ~total_distance_raises(waypoint_objects)) =>
              /\ calculate_total_distance(optimized_route)
                   = calculate_total_distance(waypoint_objects)
                   => result.value.efficiency_score = 1000
              /\ calculate_total_distance(waypoint_objects) = 0
                   => result.value.efficiency_score = 1000

\* Scenario A: two coincident pickup/dropoff pairs, distance 0, efficiency 1.0
C20_Witness ==
    /\ pc = "done"
    /\ caught = "none"
    /\ Len(waypoints) = 4
    /\ OnePairPerPassenger(waypoint_objects)
    /\ Cardinality(passengers) = 2
    /\ result.value.total_distance_km = 0
    /\ result.value.efficiency_score = 1000

----------------------------------------------------------------------------
(* C21 - C30 *)

\* the candidates of the iteration at hand that are as near as the one chosen
TiedWith(nw) ==
    {k \in DOMAIN candidates(LoopState, constraints) :
        geodesic(current_location, candidates(LoopState, constraints)[k])
            = geodesic(current_location, nw)}

\* an iteration of the while loop has appended a waypoint
Visited == pc = "loop" /\ branch' = "greedy" /\ Len(optimized_route') = Len(optimized_route) + 1

\* C21: when several candidates of an iteration are at the same minimum
\* distance from the current location, the one that stands earliest in the
\* input waypoint order is appended, also when a dropoff and a pickup tie
\* (a waypoint's id is its index in the input).
C21_TieByInputOrder ==
    [][Visited =>
          \A k \in TiedWith(current_location') :
              current_location'.id <= candidates(LoopState, constraints)[k].id]_vars

\* the waypoints the fallback branch appended: the last ones of the output, as
\* many as were remaining
AppendedByFallback ==
    SubSeq(optimized_route,
           Len(optimized_route) - Len(remaining_pickups) - Len(remaining_dropoffs) + 1,
           Len(optimized_route))

\* C22: when an iteration finds no candidate, every remaining waypoint is
\* appended to the output, in the order of the input (pickups and dropoffs
\* interleaved as the input has them), and sequencing ends.
C22_FallbackKeepsInputOrder ==
    branch = "fallback" =>
        /\ pc \in {"evaluate", "done"}
        /\ {AppendedByFallback[i] : i \in DOMAIN AppendedByFallback}
             = {remaining_pickups[i] : i \in DOMAIN remaining_pickups}
                 \cup {remaining_dropoffs[i] : i \in DOMAIN remaining_dropoffs}
        /\ \A i, j \in DOMAIN AppendedByFallback :
              i < j => AppendedByFallback[i].id < AppendedByFallback[j].id

\* the passengers validation counts (line 89): the non-empty passenger ids
ValidatedPassengers == passengers \ {NoPassenger}

\* the request has passed the validation of optimize_route: two waypoints or
\* more, no more passengers than max_passengers, which is 1 or more
PassedValidation ==
    /\ pc # "idle"
    /\ Len(waypoints) >= 2
    /\ max_passengers >= 1
    /\ Cardinality(ValidatedPassengers) <= max_passengers

\* C23: for a request that has passed validation and consists of exactly one
\* pickup and one dropoff for each passenger, the `no candidate' branch of the
\* loop is never taken: at every iteration the candidate list is non-empty.
C23_FallbackUnreachable ==
    (PassedValidation /\ OnePairPerPassenger(waypoint_objects))
        => /\ branch # "fallback"
           /\ pc = "loop" => candidates(LoopState, constraints) # <<>>

\* the loop is at an iteration where the vehicle is full, so that no pickup is
\* a candidate, and a pickup and two dropoffs have been visited or remain
C23_Witness ==
    /\ pc = "loop"
    /\ PassedValidation
    /\ OnePairPerPassenger(waypoint_objects)
    /\ Cardinality(passenger_in_car) >= constraints_get(constraints)
    /\ Len(waypoints) = 4

\* the candidate set of the iteration at hand, as the claims describe it: the
\* remaining dropoffs of the passengers aboard, and the remaining pickups when
\* the vehicle is below the limit the loop uses
CandidateSet ==
    {remaining_dropoffs[i] : i \in {k \in DOMAIN remaining_dropoffs :
                                     remaining_dropoffs[k].passenger_id \in passenger_in_car}}
      \cup (IF Cardinality(passenger_in_car) < constraints_get(constraints)
            THEN {remaining_pickups[i] : i \in DOMAIN remaining_pickups}
            ELSE {})

\* an iteration of the while loop that did not take the fallback branch
Iterated == pc = "loop" /\ branch' # "fallback"

\* C24: an iteration that does not take the fallback appends a waypoint of the
\* candidate set, no candidate is strictly nearer to the current location than
\* it, and afterwards it is the current location, gone from the remaining
\* waypoints, and its passenger has boarded (pickup) or left (dropoff).
C24_IterationVisitsNearestCandidate ==
    [][Iterated =>
          /\ optimized_route' = Append(optimized_route, current_location')
          /\ current_location' \in CandidateSet
          /\ \A w \in CandidateSet :
                geodesic(current_location, w)
                    >= geodesic(current_location, current_location')
          /\ IF current_location'.type = "pickup"
             THEN /\ passenger_in_car'
                       = passenger_in_car \cup {current_location'.passenger_id}
                  /\ Len(remaining_pickups') = Len(remaining_pickups) - 1
                  /\ remaining_dropoffs' = remaining_dropoffs
             ELSE /\ passenger_in_car'
                       = passenger_in_car \ {current_location'.passenger_id}
                  /\ Len(remaining_dropoffs') = Len(remaining_dropoffs) - 1
                  /\ remaining_pickups' = remaining_pickups]_vars

\* the loop has visited a dropoff, then a pickup at another place, then the
\* waypoint that was left at that place
C24_Witness ==
    /\ branch = "greedy"
    /\ pc = "evaluate"
    /\ Len(optimized_route) = 4
    /\ optimized_route[2].type = "dropoff"
    /\ optimized_route[3].type = "pickup"
    /\ optimized_route[3].pos # optimized_route[2].pos
    /\ optimized_route[4].pos = optimized_route[3].pos

\* the seconds from the start of the route to the arrival at its k-th waypoint
\* (k = 1 is the first): the drive to, and the dwell at, every stop before it
RECURSIVE TimeBefore(_, _)
TimeBefore(route, k) ==
    IF k <= 1 THEN 0
    ELSE TimeBefore(route, k - 1)
         + (geodesic(route[k - 1], route[k]) * 3600) \div avg_speed_kmh
         + route[k - 1].estimated_time

\* the call has returned the result of a computation
Computed == pc = "done" /\ caught = "none"

\* C25: for every passenger whose pickup and dropoff stand in the sequenced
\* route, the pickup ETA and the dropoff ETA are the driving and dwell time of
\* all stops before that waypoint, replayed from the start of the route; the
\* ride time is their difference (reported in tenths of a minute, 6 seconds
\* each), and it is not negative when the pickup stands before the dropoff.
C25_PassengerTimes ==
    Computed =>
        \A p \in DOMAIN result.value.passenger_routes :
            LET segment == result.value.passenger_routes[p]
            IN  (segment.pickup_order >= 1 /\ segment.dropoff_order >= 1) =>
                  /\ optimized_route[segment.pickup_order].passenger_id = p
                  /\ optimized_route[segment.pickup_order].type = "pickup"
                  /\ optimized_route[segment.dropoff_order].passenger_id = p
                  /\ optimized_route[segment.dropoff_order].type = "dropoff"
                  /\ segment.estimated_pickup_time
                       = TimeBefore(optimized_route, segment.pickup_order)
                  /\ segment.estimated_dropoff_time
                       = TimeBefore(optimized_route, segment.dropoff_order)
                  /\ 6 * segment.estimated_ride_time_minutes
                       = segment.estimated_dropoff_time - segment.estimated_pickup_time
                  /\ segment.pickup_order < segment.dropoff_order
                       => segment.estimated_ride_time_minutes >= 0

\* a passenger was picked up third, after a drive, and dropped last
C25_Witness ==
    /\ Computed
    /\ \E p \in DOMAIN result.value.passenger_routes :
          /\ result.value.passenger_routes[p].pickup_order = 3
          /\ result.value.passenger_routes[p].dropoff_order = 4
          /\ result.value.passenger_routes[p].estimated_pickup_time > 2 * pickup_time_seconds
          /\ result.value.passenger_routes[p].estimated_ride_time_minutes > 20

\* a call with the request of the call before it has returned in this step,
\* while the cache held the entry of that request
ServedWhileCached ==
    /\ pc = "done"
    /\ generate_route_cache_key(waypoints, constraints) \in DOMAIN redis
    /\ waypoints' = waypoints
    /\ constraints' = constraints
    /\ Len(history') = Len(history) + 1

\* C26: once optimize_route has computed and cached the result of a request, a
\* later call with the same waypoints and constraints, made before the entry
\* expires, returns that stored result.
C26_CacheHitReturnsStored ==
    [][ServedWhileCached =>
          result' = Returned(redis[generate_route_cache_key(waypoints, constraints)])]_vars

\* the keys optimize_route writes (route_opt:...), as against those of find_matches
IsRouteKey(k) == "sorted_waypoints" \in DOMAIN k

\* the cache entries this step has written or overwritten
Written == {k \in DOMAIN redis' : k \notin DOMAIN redis \/ redis'[k] # redis[k]}

\* this step ends a call of find_matches that raises, or that has found no
\* available rides
SearchFailedOrFoundNone ==
    /\ UNCHANGED <<pc, history, optimized_route>>     \* no step of optimize_route
    /\ match_pc \in {"idle", "done"}
    /\ match_pc' = "done"
    /\ \/ match_result'.outcome = "raise"
       \/ match_result' = Returned(<<>>)

\* C27: the caches hold results of completed computations only: no entry
\* optimize_route writes is a fallback result (algorithm 'fallback'), and a
\* call of find_matches that raises or finds no available rides writes no
\* entry.
C27_CacheHoldsComputedResults ==
    [][/\ \A k \in Written : IsRouteKey(k) => redis'[k].algorithm # "fallback"
       /\ SearchFailedOrFoundNone => redis' = redis]_vars

\* the cache holds an entry of each service; the route service has answered
\* the repeated request with the fallback, the search has been repeated
C27_Witness ==
    /\ \E k \in DOMAIN redis : IsRouteKey(k)
    /\ \E k \in DOMAIN redis : ~IsRouteKey(k)
    /\ pc = "done"
    /\ Len(history) = 2
    /\ result.value.algorithm = "fallback"
    /\ match_pc = "done"
    /\ match_result.outcome = "return"
    /\ available_rides = <<>>

\* the waypoints the loop has still to visit
Remaining == Len(remaining_pickups) + Len(remaining_dropoffs)

\* C28: the sequencing loop terminates: while it runs a waypoint remains and
\* output and remaining waypoints together are the n waypoints of the input;
\* each iteration either moves exactly one waypoint from the remaining ones to
\* the output or takes the fallback branch and leaves the loop; so the loop is
\* left after at most n iterations.
C28_LoopTerminates ==
    /\ [](pc = "loop" =>
             /\ Remaining >= 1
             /\ Len(optimized_route) + Remaining = Len(waypoints))
    /\ [][pc = "loop" =>
             \/ /\ branch' = "greedy"
                /\ Remaining' = Remaining - 1
                /\ Len(optimized_route') = Len(optimized_route) + 1
             \/ /\ branch' = "fallback"
                /\ pc' = "evaluate"]_vars
    /\ (pc = "loop") ~> (pc = "evaluate")

\* the loop has been left after three iterations on four waypoints
C28_Witness ==
    /\ pc = "evaluate"
    /\ branch = "greedy"
    /\ Len(waypoints) = 4
    /\ Len(optimized_route) = 4
    /\ Remaining = 0

\* every passenger id of the input has exactly one pickup
OnePickupPerPassenger ==
    \A i \in DOMAIN waypoint_objects :
        CountOf(waypoint_objects, waypoint_objects[i].passenger_id, "pickup") = 1

\* C29: the limit the loop uses is never below the limit validation uses; and
\* for a request that has passed validation with one pickup per passenger,
\* whenever a pickup remains the passengers aboard are fewer than the loop's
\* limit, so every remaining pickup is in the candidate list of the iteration.
C29_GateAdmitsPickups ==
    /\ pc # "idle" => constraints_get(constraints) >= max_passengers
    /\ (pc = "loop" /\ PassedValidation /\ OnePickupPerPassenger
            /\ remaining_pickups # <<>>)
         => /\ Cardinality(passenger_in_car) < constraints_get(constraints)
            /\ LET cands == candidates(LoopState, constraints)
               IN  \A i \in DOMAIN remaining_pickups :
                       \E k \in DOMAIN cands : cands[k] = remaining_pickups[i]

\* C30: for a sequenced route of two waypoints or more the ETA of the first
\* waypoint is 0, the ETA does not decrease from one waypoint to the next, and
\* the ETA of the last waypoint is the total time of the route (the driving
\* time over the total distance plus the time spent at every stop but the
\* last), which the result reports in minutes.
C30_EtaProfile ==
    (Computed /\ Len(optimized_route) >= 2) =>
        LET last == Len(optimized_route) - 1
        IN  /\ calculate_waypoint_eta(optimized_route, 0) = 0
            /\ \A i \in 1..last :
                   calculate_waypoint_eta(optimized_route, i - 1)
                       <= calculate_waypoint_eta(optimized_route, i)
            /\ calculate_waypoint_eta(optimized_route, last)
                   = calculate_total_time(optimized_route)
            /\ result.value.total_time_minutes
                   = RoundHalfEven(calculate_waypoint_eta(optimized_route, last), 6)

\* a route of four waypoints has been evaluated, with a drive on the way to
\* the second waypoint and another after it
C30_Witness ==
    /\ Computed
    /\ Len(optimized_route) = 4
    /\ calculate_waypoint_eta(optimized_route, 1) > pickup_time_seconds
    /\ calculate_waypoint_eta(optimized_route, 3)
           > calculate_waypoint_eta(optimized_route, 1) + 2 * pickup_time_seconds

====
